---- MODULE Spec2Model ----
(***************************************************************************)
(* A model of dynamo/tools/velocity.py: the velocity class (vel_u, vel_s,  *)
(* vel_p over the stored rate parameters) and the dispatch of              *)
(* estimation.fit.  Arrays are modelled with their numpy shape: None, a    *)
(* 1-D vector, a 2-D genes x k matrix (a sequence of rows), or the         *)
(* (alpha_std, alpha_stm) tuple of the mix_std_stm experiment.  A call     *)
(* returns a matrix, the NaN sentinel, or raises.                          *)
(***************************************************************************)
EXTENDS Integers, Sequences, FiniteSets, TLC

\* ------------------------------------------------------------------ bounds
NGenes == 2
MaxCells == 3
MaxTimes == 2
MaxClusters == 2
MaxPerCondition == 2
MaxPerc == 5

Genes == 1..NGenes

\* ------------------------------------------------------------------ values
None == [kind |-> "none"]
Vec(v) == [kind |-> "vec", v |-> v]
Mat(m) == [kind |-> "mat", m |-> m]
Tuple(a, b) == [kind |-> "tuple", std |-> a, stm |-> b]
Csr(m) == [kind |-> "csr", m |-> m]
NaN == [kind |-> "nan"]
Raise(e) == [kind |-> "raise", exc |-> e]

\* The outcome of a step inside a method: a matrix, or the exception raised.
Ok(m) == [ok |-> TRUE, m |-> m]
Err(e) == [ok |-> FALSE, exc |-> e]

\* ------------------------------------------------------------ numpy pieces
\* x.shape[1] of a 2-D array held as a sequence of rows.
ncols(M) == Len(M[1])

\* v.reshape((-1, 1)): a 1-D vector as a genes x 1 matrix.
reshape(v) == [g \in 1..Len(v) |-> <<v[g]>>]

\* np.repeat(x, n, axis=1): every column n times in a row; a 1-D array has no
\* axis 1.
repeat(x, n) ==
    IF x.kind = "vec" THEN Err("AxisError")
    ELSE Ok([g \in 1..Len(x.m) |->
               [j \in 1..(ncols(x.m) * n) |-> x.m[g][((j - 1) \div n) + 1]]])

\* np.unique(t): the distinct time values; np.unique(None) is the one-element
\* object array [None].
t_uniq(t) == IF t.kind = "none" THEN {None} ELSE {t.v[c] : c \in 1..Len(t.v)}

len_t_uniq(t) == Cardinality(t_uniq(t))

\* The position of time value x in the sorted t_uniq.
uniq_index(t, x) == Cardinality({y \in t_uniq(t) : y <= x})

\* The loop over t_uniq that fills out[:, t == t_uniq[i]] with column i of M.
\*   reshaped: the column is passed to np.repeat as M[:, i].reshape(-1, 1)
\*             (a bare M[:, i] is 1-D, and np.repeat(..., axis=1) raises);
\*   zeros2d:  out is np.zeros(U.shape) (np.zeros_like(U.shape) is the 1-D
\*             array [0, 0], and out[:, mask] = ... raises).
\* The right-hand side is evaluated before the subscripted target, and the
\* first iteration already decides whether the loop raises.
time_loop(M, t, C, reshaped, zeros2d) ==
    IF ~reshaped THEN Err("AxisError")
    ELSE IF ~zeros2d THEN Err("IndexError")
    ELSE IF Len(t.v) # C THEN Err("IndexError")
    ELSE Ok([g \in 1..Len(M) |-> [c \in 1..C |-> M[g][uniq_index(t, t.v[c])]]])

\* Elementwise arithmetic of two matrices with the same rows, numpy's
\* broadcasting over the columns (equal, or one of them a single column).
bcast_ok(A, B) == ncols(A) = ncols(B) \/ ncols(A) = 1 \/ ncols(B) = 1

bcast_cols(A, B) == IF ncols(A) = 1 THEN ncols(B) ELSE ncols(A)

at(A, g, j) == IF ncols(A) = 1 THEN A[g][1] ELSE A[g][j]

mul(A, B) ==
    IF ~bcast_ok(A, B) THEN Err("ValueError")
    ELSE Ok([g \in 1..Len(A) |-> [j \in 1..bcast_cols(A, B) |-> at(A, g, j) * at(B, g, j)]])

sub(A, B) ==
    IF ~bcast_ok(A, B) THEN Err("ValueError")
    ELSE Ok([g \in 1..Len(A) |-> [j \in 1..bcast_cols(A, B) |-> at(A, g, j) - at(B, g, j)]])

\* csr_matrix.__sub__: the shapes must be equal (no broadcasting);
\* csr_matrix.multiply broadcasts as numpy does.
csr_sub(A, B) ==
    IF ncols(A) # ncols(B) THEN Err("ValueError") ELSE sub(A, B)

\* a - b * X, dense or sparse.
minus_times_unscaled(a, b, X, sp) ==
    IF sp THEN csr_sub(a, b) ELSE sub(a, b)

minus_times(a, b, X, sp) ==
    LET bx == mul(b, X)
    IN IF ~bx.ok THEN bx
       ELSE IF sp THEN csr_sub(a, bx.m) ELSE sub(a, bx.m)

\* a * X - b * Y, dense or sparse.
times_minus_times(a, X, b, Y, sp) ==
    LET ax == mul(a, X)
        by == mul(b, Y)
    IN IF ~ax.ok THEN ax
       ELSE IF ~by.ok THEN by
       ELSE IF sp THEN csr_sub(ax.m, by.m) ELSE sub(ax.m, by.m)

\* The value a method returns for a computed matrix.
returned(r, sp) ==
    IF ~r.ok THEN Raise(r.exc) ELSE IF sp THEN Csr(r.m) ELSE Mat(r.m)

\* ------------------------------------------------- velocity: broadcasting
\* vel_u's alpha, broadcast to the shape of U (C columns).
alpha_u(a, t, C) ==
    IF a.kind = "none" THEN Err("AttributeError")
    ELSE IF a.kind # "tuple"
    THEN IF a.kind = "vec" THEN repeat(Mat(reshape(a.v)), C)
         ELSE IF ncols(a.m) = C THEN Ok(a.m)
         ELSE IF ncols(a.m) = len_t_uniq(t) /\ len_t_uniq(t) > 1
              THEN time_loop(a.m, t, C, FALSE, TRUE)
         ELSE repeat(a, C)
    ELSE IF ncols(a.stm) = C THEN Ok(a.stm)
         ELSE IF ncols(a.stm) = len_t_uniq(t) /\ len_t_uniq(t) > 1
              THEN time_loop(a.stm, t, C, TRUE, TRUE)
         ELSE repeat(Mat(a.stm), C)

\* vel_u's beta: there is no branch for a matrix that already has C columns.
\* None (and a tuple) has no .shape.
beta_u(b, t, C) ==
    IF b.kind \in {"none", "tuple"} THEN Err("AttributeError")
    ELSE IF b.kind = "vec" THEN repeat(Mat(reshape(b.v)), C)
    ELSE IF ncols(b.m) = len_t_uniq(t) /\ len_t_uniq(t) > 1
         THEN time_loop(b.m, t, C, TRUE, FALSE)
    ELSE repeat(b, C)

\* vel_s's beta and gamma (the two blocks are the same code).
param_s(x, t, C) ==
    IF x.kind \in {"none", "tuple"} THEN Err("AttributeError")
    ELSE IF x.kind = "vec" THEN repeat(Mat(reshape(x.v)), C)
    ELSE IF ncols(x.m) = C THEN Ok(x.m)
    ELSE IF ncols(x.m) = len_t_uniq(t) /\ len_t_uniq(t) > 1
         THEN time_loop(x.m, t, C, FALSE, FALSE)
    ELSE repeat(x, C)

\* vel_p's eta and delta (the two blocks are the same code).
param_p(x, t, C) ==
    IF x.kind \in {"none", "tuple"} THEN Err("AttributeError")
    ELSE IF x.kind = "vec" THEN repeat(Mat(reshape(x.v)), C)
    ELSE IF ncols(x.m) = C THEN Ok(x.m)
    ELSE IF ncols(x.m) = len_t_uniq(t) /\ len_t_uniq(t) > 1
         THEN time_loop(x.m, t, C, FALSE, FALSE)
    ELSE repeat(x, C)

\* ------------------------------------------------------ velocity: methods
\* Each method maps the stored parameters p and its arguments to the
\* parameters it leaves behind and the value it returns (or the exception).

\* vel_u past the test of alpha: beta is borrowed from gamma while it is
\* unset, and set back to None only when both broadcasts have completed.
vel_u_present(p, U, sp) ==
    LET no_beta == p.beta.kind = "none" /\ p.gamma.kind # "none"
        p1 == IF no_beta THEN [p EXCEPT !.beta = p.gamma] ELSE p
        alpha == alpha_u(p1.alpha, p1.t, ncols(U))
        beta == beta_u(p1.beta, p1.t, ncols(U))
        p2 == IF no_beta THEN [p1 EXCEPT !.beta = None] ELSE p1
    IN IF ~alpha.ok THEN [parameters |-> p1, ret |-> Raise(alpha.exc)]
       ELSE IF ~beta.ok THEN [parameters |-> p1, ret |-> Raise(beta.exc)]
       ELSE [parameters |-> p2,
             ret |-> returned(minus_times(alpha.m, beta.m, U, sp), sp)]

vel_u_tests_beta(p, U, sp) ==
    IF p.beta.kind # "none" THEN vel_u_present(p, U, sp)
    ELSE [parameters |-> p, ret |-> NaN]

vel_u(p, U, sp) ==
    IF p.alpha.kind # "none" THEN vel_u_present(p, U, sp)
    ELSE [parameters |-> p, ret |-> NaN]

\* The value vel_s computes from the broadcast beta and gamma: without a
\* stored beta the first term is the borrowed alpha itself, not a product.
vel_s_value_always_product(no_beta, beta, gamma, U, S, sp) ==
    times_minus_times(beta, U, gamma, S, sp)

vel_s_value(no_beta, beta, gamma, U, S, sp) ==
    IF no_beta THEN minus_times(beta, gamma, S, sp)
    ELSE times_minus_times(beta, U, gamma, S, sp)

\* vel_s: beta is borrowed from alpha while it is unset, and stays so.
vel_s(p, U, S, sp) ==
    IF p.gamma.kind # "none"
    THEN LET no_beta == p.beta.kind = "none" /\ p.alpha.kind # "none"
             p1 == IF no_beta THEN [p EXCEPT !.beta = p.alpha] ELSE p
             beta == param_s(p1.beta, p1.t, ncols(U))
             gamma == param_s(p1.gamma, p1.t, ncols(U))
         IN IF ~beta.ok THEN [parameters |-> p1, ret |-> Raise(beta.exc)]
            ELSE IF ~gamma.ok THEN [parameters |-> p1, ret |-> Raise(gamma.exc)]
            ELSE [parameters |-> p1,
                  ret |-> returned(vel_s_value(no_beta, beta.m, gamma.m, U, S, sp), sp)]
    ELSE [parameters |-> p, ret |-> NaN]

\* vel_p past the test of eta and delta; sp is issparse(P).
vel_p_present(p, S, P, sp) ==
    LET eta == param_p(p.eta, p.t, ncols(S))
        delta == param_p(p.delta, p.t, ncols(S))
    IN IF ~eta.ok THEN [parameters |-> p, ret |-> Raise(eta.exc)]
       ELSE IF ~delta.ok THEN [parameters |-> p, ret |-> Raise(delta.exc)]
       ELSE [parameters |-> p,
             ret |-> returned(times_minus_times(eta.m, S, delta.m, P, sp), sp)]

vel_p_tests_either(p, S, P, sp) ==
    IF p.eta.kind # "none" \/ p.delta.kind # "none" THEN vel_p_present(p, S, P, sp)
    ELSE [parameters |-> p, ret |-> NaN]

vel_p(p, S, P, sp) ==
    IF p.eta.kind # "none" /\ p.delta.kind # "none" THEN vel_p_present(p, S, P, sp)
    ELSE [parameters |-> p, ret |-> NaN]

\* ------------------------------------------------------------------ inputs
\* Arrays with pairwise distinct entries, so that a result shows which entry
\* of which parameter it was computed from.
offset(name) ==
    CASE name = "alpha" -> 0 [] name = "beta" -> 20 [] name = "gamma" -> 40
      [] name = "eta" -> 60 [] name = "delta" -> 80

per_gene(name) == [g \in Genes |-> offset(name) + g]

per_column(name, k) == [g \in Genes |-> [j \in 1..k |-> offset(name) + g + NGenes * j]]

\* None, a per-gene vector, or a genes x k matrix.
Shapes(name) ==
    {None, Vec(per_gene(name))} \cup {Mat(per_column(name, k)) : k \in 1..MaxCells}

\* The (alpha_std, alpha_stm) pair: alpha_stm's first column is alpha_std.
AlphaTuples ==
    {Tuple([g \in Genes |-> per_column("alpha", k)[g][1]], per_column("alpha", k)) :
        k \in 1..MaxCells}

Simple(name) == {None, Vec(per_gene(name))}

ParamNames == {"alpha", "beta", "gamma", "eta", "delta"}

\* The values of parameter name when who is the one parameter that may be a
\* matrix (or, for alpha, the tuple).
Values(name, who) ==
    IF name # who THEN Simple(name)
    ELSE IF name = "alpha" THEN Shapes(name) \cup AlphaTuples
    ELSE Shapes(name)

\* The time vector: None, or one time per cell with T distinct values.
TimeVectors ==
    {None} \cup {Vec([c \in 1..MaxCells |-> c % T]) : T \in 1..MaxTimes}

\* The genes x C count matrices passed to a call: the first argument, and the
\* second (of the same shape).
counts(C) == [g \in Genes |-> [c \in 1..C |-> (g - 1) + NGenes * (c - 1)]]

counts2(C) == [g \in Genes |-> [c \in 1..C |-> 1 + g + NGenes * (c - 1)]]

Cells == 1..MaxCells

\* ------------------------------------------------------ estimation: fit
\* A fitted parameter is described by its shape and by the computation that
\* produced it: the solvers themselves are library functions.
vector(n, by) == [kind |-> "vec", len |-> n, by |-> by]

matrix(r, c, by) == [kind |-> "mat", rows |-> r, cols |-> c, by |-> by]

pair(a, b) == [kind |-> "tuple", std |-> a, stm |-> b]

\* A per-gene vector whose entries for the genes in Z were set to 0 by the
\* except clause around the solver.
zeroed(n, by, Z) == [kind |-> "vec", len |-> n, by |-> by, zero |-> Z]

\* fit_first_order_deg_lsq raised on some gene and nothing caught it.
solver_raises(e) == e.fails # {}

Layers == {"uu", "ul", "su", "sl", "p", "us", "s2"}

\* What a branch of fit leaves: the parameters, and the exception raised (if
\* any) at the point where it was raised.
Done(P) == [parameters |-> P, raised |-> "none"]
Fail(P, exc) == [parameters |-> P, raised |-> exc]

\* np.all(self._exist_data(...)): every named layer is not None.
exist_data(e, names) == names \subseteq e.data

\* self._exist_parameter(name)
exist_parameter(e, name) == e.parameters[name].kind # "none"

\* The data matrices are genes x cells, one time per cell.
n_cells(e) == Len(e.t.v)

\* fit_alpha_oneshot: genes x len(clusters), every cell its own cluster when
\* clusters is None.
fit_alpha_oneshot(e, clusters) ==
    matrix(NGenes, IF clusters.kind = "none" THEN n_cells(e) ELSE clusters.n,
           "fit_alpha_oneshot")

\* alpha_stm[:, 0] = first: a matrix whose first column was assigned.
first_column(m, first) ==
    [kind |-> "mat", rows |-> m.rows, cols |-> m.cols, by |-> m.by, first |-> first]

solve_alpha_mix_std_stm_zero_start(e, P) ==
    IF ~e.sparse THEN Fail(P, "ValueError")
    ELSE Done([P EXCEPT !.alpha =
                 pair(vector(NGenes, "fit_alpha_oneshot"),
                      first_column(matrix(NGenes, len_t_uniq(e.t), "solve_alpha_2p"),
                                   vector(NGenes, "zeros")))])

\* solve_alpha_mix_std_stm: the steady-state alpha comes from
\* fit_alpha_oneshot on np.mean(ul[:, t == t_min], 1), which is 1-D for a
\* dense ul (its shape does not unpack into genes, cells) and genes x 1 for a
\* sparse one; it is the first column of alpha_stm, whose other columns (one
\* per further unique time) come from solve_alpha_2p.
solve_alpha_mix_std_stm(e, P) ==
    IF ~e.sparse THEN Fail(P, "ValueError")
    ELSE LET alpha_std == vector(NGenes, "fit_alpha_oneshot")
             alpha_stm == matrix(NGenes, len_t_uniq(e.t), "solve_alpha_2p")
         IN Done([P EXCEPT !.alpha = pair(alpha_std, first_column(alpha_stm, alpha_std))])

fit_conventional_gamma_only(e) ==
    LET P == e.parameters
    IN IF exist_data(e, {"uu", "su"}) \/ exist_data(e, {"uu", "ul"})
       THEN IF e.asspt_mRNA = "ss"
            THEN Done([P EXCEPT !.gamma = vector(NGenes, "fit_gamma_steady_state")])
            ELSE IF exist_data(e, {"us", "s2"})
                 THEN Done([P EXCEPT !.gamma = vector(NGenes, "fit_gamma_stochastic")])
                 ELSE Fail(P, "TypeError")
       ELSE Done(P)

\* extyp == "conventional"
fit_conventional(e) ==
    LET P == e.parameters
        P1 == [P EXCEPT !.beta = vector(NGenes, "ones")]
    IN IF exist_data(e, {"uu", "su"}) \/ exist_data(e, {"uu", "ul"})
       THEN IF e.asspt_mRNA = "ss"
            THEN Done([P1 EXCEPT !.gamma = vector(NGenes, "fit_gamma_steady_state")])
            ELSE IF exist_data(e, {"us", "s2"})
                 THEN Done([P1 EXCEPT !.gamma = vector(NGenes, "fit_gamma_stochastic")])
                 ELSE Fail(P1, "TypeError")
       ELSE Done(P)

\* extyp == "deg"
fit_deg(e) ==
    LET P == e.parameters
    IN IF exist_data(e, {"ul", "sl"})
       THEN LET P1 == [P EXCEPT !.beta = vector(NGenes, "fit_beta_gamma_lsq"),
                                !.gamma = vector(NGenes, "fit_beta_gamma_lsq")]
            IN IF solver_raises(e) THEN Fail(P, "SolverError")
               ELSE IF exist_data(e, {"uu"})
               THEN Done([P1 EXCEPT !.alpha = matrix(NGenes, 1, "fit_alpha_degradation")])
               ELSE Done(P1)
       ELSE IF exist_data(e, {"ul"})
       THEN LET P1 == [P EXCEPT !.gamma = vector(NGenes, "fit_gamma_nosplicing_lsq")]
            IN IF solver_raises(e) THEN Fail(P, "SolverError")
               ELSE IF exist_data(e, {"uu"})
               THEN Done([P1 EXCEPT !.alpha = vector(NGenes, "fit_alpha_degradation")])
               ELSE Done(P1)
       ELSE Done(P)

fit_kin_refits(e) ==
    LET P == e.parameters
    IN IF exist_data(e, {"ul", "uu", "su"})
       THEN IF solver_raises(e) THEN Fail(P, "SolverError")
            ELSE Done([P EXCEPT !.beta = vector(NGenes, "fit_beta_gamma_lsq"),
                                !.gamma = vector(NGenes, "fit_beta_gamma_lsq"),
                                !.alpha = vector(NGenes, "fit_alpha_synthesis")])
       ELSE IF exist_data(e, {"ul", "uu"})
       THEN Done([P EXCEPT !.gamma = zeroed(NGenes, "fit_first_order_deg_lsq", e.fails),
                           !.alpha = vector(NGenes, "fit_alpha_synthesis")])
       ELSE Done(P)

\* (extyp == "kin" or extyp == "one_shot") and len(np.unique(t)) > 1
fit_kin(e) ==
    LET P == e.parameters
    IN IF exist_data(e, {"ul", "uu", "su"})
       THEN LET P1 == IF ~exist_parameter(e, "beta")
                      THEN [P EXCEPT !.beta = vector(NGenes, "fit_beta_gamma_lsq"),
                                     !.gamma = vector(NGenes, "fit_beta_gamma_lsq")]
                      ELSE P
            IN IF ~exist_parameter(e, "beta") /\ solver_raises(e)
               THEN Fail(P, "SolverError")
               ELSE Done([P1 EXCEPT !.alpha = vector(NGenes, "fit_alpha_synthesis")])
       ELSE IF exist_data(e, {"ul", "uu"})
       THEN Done([P EXCEPT !.gamma = zeroed(NGenes, "fit_first_order_deg_lsq", e.fails),
                           !.alpha = vector(NGenes, "fit_alpha_synthesis")])
       ELSE Done(P)

\* one_shot_method == "combined": alpha starts as csr_matrix(ul.shape), or as
\* np.zeros_like(ul.shape), the 1-D integer array [0, 0], whose element i
\* cannot take gene i's per-cell alpha.
fit_combined(e) ==
    LET P == e.parameters
    IN IF e.sparse
       THEN Done([P EXCEPT !.alpha = matrix(NGenes, n_cells(e), "one_shot_gamma_alpha"),
                           !.gamma = vector(NGenes, "one_shot_gamma_alpha")])
       ELSE LET P1 == [P EXCEPT !.alpha = vector(2, "zeros_like")]
            IN IF n_cells(e) > 1 THEN Fail(P1, "ValueError")
               ELSE IF NGenes > 2 THEN Fail(P1, "IndexError")
               ELSE Done([P1 EXCEPT !.gamma = vector(NGenes, "one_shot_gamma_alpha")])

fit_one_shot_rederives(e, clusters, one_shot_method) ==
    LET P == e.parameters
    IN IF len_t_uniq(e.t) > 1 THEN Fail(P, "Exception")
       ELSE IF exist_data(e, {"ul", "uu", "sl", "su"})
       THEN Done([P EXCEPT !.beta = vector(NGenes, "solve_gamma"),
                           !.gamma = vector(NGenes, "solve_gamma"),
                           !.alpha = vector(NGenes, "fit_alpha_synthesis")])
       ELSE IF exist_data(e, {"ul"}) /\ exist_parameter(e, "gamma")
       THEN Done([P EXCEPT !.alpha = fit_alpha_oneshot(e, clusters)])
       ELSE IF exist_data(e, {"ul"}) /\ exist_data(e, {"uu"})
       THEN IF one_shot_method \in {"sci-fate", "sci_fate"}
            THEN Done([P EXCEPT !.gamma = vector(NGenes, "solve_gamma"),
                                !.alpha = vector(NGenes, "fit_alpha_synthesis")])
            ELSE IF one_shot_method = "combined" THEN fit_combined(e)
            ELSE Done(P)
       ELSE Done(P)

fit_one_shot_keeps_preset(e, clusters, one_shot_method) ==
    LET P == e.parameters
    IN IF len_t_uniq(e.t) > 1 THEN Fail(P, "Exception")
       ELSE IF exist_data(e, {"ul", "uu", "sl", "su"})
       THEN IF exist_data(e, {"ul"}) /\ (exist_parameter(e, "beta")
                                         \/ exist_parameter(e, "gamma"))
            THEN Done([P EXCEPT !.alpha = fit_alpha_oneshot(e, clusters)])
            ELSE Done([P EXCEPT !.beta = vector(NGenes, "solve_gamma"),
                                !.gamma = vector(NGenes, "solve_gamma"),
                                !.alpha = vector(NGenes, "fit_alpha_synthesis")])
       ELSE IF exist_data(e, {"ul"}) /\ exist_parameter(e, "gamma")
       THEN Done([P EXCEPT !.alpha = fit_alpha_oneshot(e, clusters)])
       ELSE IF exist_data(e, {"ul"}) /\ exist_data(e, {"uu"})
       THEN IF one_shot_method \in {"sci-fate", "sci_fate"}
            THEN Done([P EXCEPT !.gamma = vector(NGenes, "solve_gamma"),
                                !.alpha = vector(NGenes, "fit_alpha_synthesis")])
            ELSE IF one_shot_method = "combined" THEN fit_combined(e)
            ELSE Done(P)
       ELSE Done(P)

\* extyp == "one_shot" or extyp == "one-shot"
fit_one_shot(e, clusters, one_shot_method) ==
    LET P == e.parameters
    IN IF len_t_uniq(e.t) > 1 THEN Fail(P, "Exception")
       ELSE IF exist_data(e, {"ul", "uu", "sl", "su"})
       THEN IF exist_data(e, {"ul"}) /\ exist_parameter(e, "beta")
                                    /\ exist_parameter(e, "gamma")
            THEN Done([P EXCEPT !.alpha = fit_alpha_oneshot(e, clusters)])
            ELSE Done([P EXCEPT !.beta = vector(NGenes, "solve_gamma"),
                                !.gamma = vector(NGenes, "solve_gamma"),
                                !.alpha = vector(NGenes, "fit_alpha_synthesis")])
       ELSE IF exist_data(e, {"ul"}) /\ exist_parameter(e, "gamma")
       THEN Done([P EXCEPT !.alpha = fit_alpha_oneshot(e, clusters)])
       ELSE IF exist_data(e, {"ul"}) /\ exist_data(e, {"uu"})
       THEN IF one_shot_method \in {"sci-fate", "sci_fate"}
            THEN Done([P EXCEPT !.gamma = vector(NGenes, "solve_gamma"),
                                !.alpha = vector(NGenes, "fit_alpha_synthesis")])
            ELSE IF one_shot_method = "combined" THEN fit_combined(e)
            ELSE Done(P)
       ELSE Done(P)

\* extyp == "mix_std_stm": with ul, uu, su the loop reads data["sl"] too.
fit_mix_std_stm(e) ==
    LET P == e.parameters
    IN IF exist_data(e, {"ul", "uu", "su"})
       THEN IF ~exist_data(e, {"sl"}) THEN Fail(P, "TypeError")
            ELSE solve_alpha_mix_std_stm(e,
                     [P EXCEPT !.beta = vector(NGenes, "solve_gamma"),
                               !.gamma = vector(NGenes, "solve_gamma")])
       ELSE IF exist_data(e, {"ul", "uu"})
       THEN solve_alpha_mix_std_stm(e,
                [P EXCEPT !.gamma = vector(NGenes, "solve_gamma"),
                          !.beta = vector(NGenes, "ones")])
       ELSE Done(P)

\* The mRNA part of fit: the dispatch on the experiment type.
fit_mRNA(e, clusters, one_shot_method) ==
    IF e.extyp = "conventional" THEN fit_conventional(e)
    ELSE IF e.extyp = "deg" THEN fit_deg(e)
    ELSE IF (e.extyp = "kin" \/ e.extyp = "one_shot") /\ len_t_uniq(e.t) > 1
         THEN fit_kin(e)
    ELSE IF e.extyp = "one_shot" \/ e.extyp = "one-shot"
         THEN fit_one_shot(e, clusters, one_shot_method)
    ELSE IF e.extyp = "mix_std_stm" THEN fit_mix_std_stm(e)
    ELSE Done(e.parameters)

fit_protein_any_assumption(e, P) ==
    IF exist_data(e, {"p", "su"})
    THEN LET n == IF e.ind_for_proteins.kind = "none" THEN 0
                  ELSE Len(e.ind_for_proteins.v)
         IN IF n > 0
            THEN Done([P EXCEPT !.eta = vector(n, "ones"),
                                !.delta = vector(n, "fit_gamma_steady_state")])
            ELSE Done(P)
    ELSE Done(P)

\* The protein part of fit: eta and delta, one entry per protein index.
fit_protein(e, P) ==
    IF exist_data(e, {"p", "su"})
    THEN LET n == IF e.ind_for_proteins.kind = "none" THEN 0
                  ELSE Len(e.ind_for_proteins.v)
         IN IF e.asspt_prot = "ss" /\ n > 0
            THEN Done([P EXCEPT !.eta = vector(n, "ones"),
                                !.delta = vector(n, "fit_gamma_steady_state")])
            ELSE Done(P)
    ELSE Done(P)

fit_skips_fitted(e, clusters, one_shot_method) ==
    IF e.data = {} THEN Fail(e.parameters, "IndexError")
    ELSE IF e.aux_param["gamma_r2"] # None \/ e.aux_param["uu0"] # None
    THEN Done(e.parameters)
    ELSE LET r == fit_mRNA(e, clusters, one_shot_method)
         IN IF r.raised # "none" THEN r ELSE fit_protein(e, r.parameters)

\* estimation.fit: get_n_genes() reads the first layer that is not None and
\* fails when there is none; an exception in the mRNA part ends the call.
fit(e, clusters, one_shot_method) ==
    IF e.data = {} THEN Fail(e.parameters, "IndexError")
    ELSE LET r == fit_mRNA(e, clusters, one_shot_method)
         IN IF r.raised # "none" THEN r ELSE fit_protein(e, r.parameters)

\* An instance whose present parameters are replaced by a marker: fit tests
\* only whether a parameter is None, so the same branch is taken and a
\* parameter that fit assigns no longer holds the marker.
marked(e) ==
    [e EXCEPT !.parameters =
        [n \in DOMAIN e.parameters |->
            IF e.parameters[n].kind = "none" THEN None ELSE [kind |-> "preset"]]]

\* The parameters one fit invocation assigns (self.parameters[name] = ...):
\* every branch has one assignment statement per parameter it assigns.
assigned(e, clusters, one_shot_method) ==
    LET m == marked(e)
        r == fit(m, clusters, one_shot_method)
    IN {n \in DOMAIN e.parameters : r.parameters[n] # m.parameters[n]}

\* The 'combined' branch stores an empty alpha and then fills it through the
\* store, self.parameters["alpha"][i] = ..., once per gene: the item
\* assignments that succeed (all of them on a sparse alpha; on the dense
\* [0, 0] none when a cell vector is assigned to an element, else those of
\* genes 0 and 1).
filled(e, clusters, one_shot_method) ==
    LET a == fit(marked(e), clusters, one_shot_method).parameters.alpha
    IN IF a.kind \in {"vec", "mat"} /\ a.by \in {"one_shot_gamma_alpha", "zeros_like"}
       THEN IF e.sparse THEN NGenes
            ELSE IF n_cells(e) > 1 THEN 0
            ELSE IF NGenes > 2 THEN 2 ELSE NGenes
       ELSE 0

\* How many times one fit invocation writes each parameter of the store.
store_writes(e, clusters, one_shot_method) ==
    LET A == assigned(e, clusters, one_shot_method)
    IN [n \in DOMAIN e.parameters |->
          IF n \notin A THEN 0
          ELSE IF n = "alpha" THEN 1 + filled(e, clusters, one_shot_method)
          ELSE 1]

\* The auxiliary diagnostics, None after construction.
AuxNames ==
    {"alpha_intercept", "alpha_r2", "gamma_intercept", "gamma_r2", "delta_intercept",
     "delta_r2", "uu0", "ul0", "su0", "sl0", "U0", "S0", "total0"}

NoAux == [k \in AuxNames |-> None]

\* The diagnostics the mRNA part of fit assigns, branch by branch; an
\* assignment statement that an exception precedes assigns nothing.
aux_mRNA(e, clusters, one_shot_method) ==
    IF e.extyp = "conventional"
    THEN IF (exist_data(e, {"uu", "su"}) \/ exist_data(e, {"uu", "ul"}))
            /\ (e.asspt_mRNA = "ss" \/ exist_data(e, {"us", "s2"}))
         THEN {"gamma_intercept", "gamma_r2"} ELSE {}
    ELSE IF e.extyp = "deg"
    THEN IF ~exist_data(e, {"ul"}) \/ solver_raises(e) THEN {}
         ELSE (IF exist_data(e, {"sl"}) THEN {"ul0", "sl0"} ELSE {"ul0"})
              \cup (IF exist_data(e, {"uu"})
                    THEN {"alpha_intercept", "uu0", "alpha_r2"} ELSE {})
    ELSE IF (e.extyp = "kin" \/ e.extyp = "one_shot") /\ len_t_uniq(e.t) > 1
    THEN IF exist_data(e, {"ul", "uu", "su"})
         THEN IF ~exist_parameter(e, "beta") /\ ~solver_raises(e)
              THEN {"uu0", "su0"} ELSE {}
         ELSE IF exist_data(e, {"ul", "uu"}) THEN {"uu0"} ELSE {}
    ELSE IF e.extyp = "one_shot" \/ e.extyp = "one-shot"
    THEN IF len_t_uniq(e.t) > 1 THEN {}
         ELSE IF exist_data(e, {"ul", "uu", "sl", "su"})
         THEN IF exist_parameter(e, "beta") /\ exist_parameter(e, "gamma")
              THEN {} ELSE {"U0", "S0"}
         ELSE IF exist_data(e, {"ul"}) /\ exist_parameter(e, "gamma") THEN {}
         ELSE IF exist_data(e, {"ul", "uu"})
         THEN IF one_shot_method \in {"sci-fate", "sci_fate"} THEN {"total0"}
              ELSE IF one_shot_method = "combined"
                      /\ fit_combined(e).raised = "none"
              THEN {"gamma_r2", "alpha_r2"}
              ELSE {}
         ELSE {}
    ELSE IF e.extyp = "mix_std_stm"
    THEN IF exist_data(e, {"ul", "uu", "su"})
         THEN IF exist_data(e, {"sl"}) THEN {"total0", "U0"} ELSE {}
         ELSE IF exist_data(e, {"ul", "uu"}) THEN {"U0"} ELSE {}
    ELSE {}

\* The diagnostics one fit invocation assigns: those of the mRNA part and,
\* when that part returned and delta was fitted, those of the protein part.
aux_assigned(e, clusters, one_shot_method) ==
    IF e.data = {} THEN {}
    ELSE LET r == fit_mRNA(e, clusters, one_shot_method)
         IN aux_mRNA(e, clusters, one_shot_method)
            \cup (IF r.raised = "none" /\ exist_data(e, {"p", "su"})
                     /\ e.asspt_prot = "ss" /\ e.ind_for_proteins.kind # "none"
                     /\ Len(e.ind_for_proteins.v) > 0
                  THEN {"delta_intercept", "delta_r2"} ELSE {})

\* self.aux_param after one fit invocation.
aux_after(e, clusters, one_shot_method) ==
    LET A == aux_assigned(e, clusters, one_shot_method)
    IN [k \in AuxNames |-> IF k \in A THEN [kind |-> "diagnostic"] ELSE e.aux_param[k]]

\* A scalar argument: len(np.shape(value)) == 0.
Scalar(x) == [kind |-> "scalar", x |-> x]

\* estimation.get_n_genes(): the rows of the first layer that is not None.
get_n_genes(e) == NGenes

\* value * np.ones(n)
times_ones(x, n) == Vec([g \in 1..n |-> x * 1])

set_parameter_as_given(e, name, value) ==
    Done([e.parameters EXCEPT ![name] = value])

\* estimation.set_parameter: a scalar is multiplied by np.ones(get_n_genes()),
\* which fails when no layer is present; any other value is stored as it is.
set_parameter(e, name, value) ==
    IF value.kind = "scalar"
    THEN IF e.data = {} THEN Fail(e.parameters, "IndexError")
         ELSE Done([e.parameters EXCEPT ![name] = times_ones(value.x, get_n_genes(e))])
    ELSE Done([e.parameters EXCEPT ![name] = value])

\* ------------------------------------------------------------------- state
VARIABLES
    parameters,  \* velocity.parameters: alpha, beta, gamma, eta, delta, t
    created,     \* the parameters as the velocity constructor stored them
    call,        \* the last velocity method call: its name and arguments
    pre,         \* velocity.parameters when the last call started
    ret,         \* what the last call returned: a matrix, NaN, or raised
    est,         \* the estimation instance: data, t, descriptor, parameters
    est_call,    \* the last estimation call, its arguments and its outcome
    est_pre,     \* estimation.parameters when the last call started
    adata,       \* the data object given to cell_wise_confidence
    metric       \* the last cell_wise_confidence call and its outcome

vel_vars == <<parameters, created, call, pre, ret>>

est_vars == <<est, est_call, est_pre>>

metric_vars == <<adata, metric>>

vars == <<parameters, created, call, pre, ret, est, est_call, est_pre, adata, metric>>

\* No data object is involved.
NoMetric ==
    /\ adata = None
    /\ metric = None

NoCall == [op |-> "init", U |-> <<>>, S |-> <<>>, P |-> <<>>, sparse |-> FALSE]

NoParameters ==
    [alpha |-> None, beta |-> None, gamma |-> None, eta |-> None, delta |-> None]

NoEstCall ==
    [op |-> "init", name |-> "", value |-> None, clusters |-> None,
     one_shot_method |-> "", raised |-> "none", writes |-> [n \in ParamNames |-> 0]]

\* No estimation instance is involved.
NoEstimation ==
    /\ est = None
    /\ est_call = NoEstCall
    /\ est_pre = NoParameters

\* No velocity instance is involved.
NoVelocity ==
    /\ parameters = None
    /\ created = None
    /\ pre = None
    /\ call = NoCall
    /\ ret = None

\* velocity.__init__: with an estimation instance a new dictionary takes the
\* instance's five parameters and its t, whatever the explicit arguments.
velocity_init(explicit, e) ==
    IF e # None
    THEN [n \in ParamNames \cup {"t"} |-> IF n = "t" THEN e.t ELSE e.parameters[n]]
    ELSE explicit

written_back_shared(e, p) ==
    [e EXCEPT !.parameters = [n \in DOMAIN e.parameters |-> p[n]]]

\* The estimation instance after a velocity method left the velocity's
\* parameters as p: the velocity has a dictionary of its own (and no method
\* changes an array in place), so nothing is written back.
written_back(e, p) == e

\* velocity.__init__ with explicit parameter arguments.
Init ==
    /\ \E who \in ParamNames :
          parameters \in
            [alpha : Values("alpha", who), beta : Values("beta", who),
             gamma : Values("gamma", who), eta : Values("eta", who),
             delta : Values("delta", who), t : TimeVectors]
    /\ created = parameters
    /\ pre = parameters
    /\ call = NoCall
    /\ ret = None
    /\ NoEstimation
    /\ NoMetric

VelU ==
    \E C \in Cells, sp \in BOOLEAN :
        LET U == counts(C)
            r == vel_u(parameters, U, sp)
        IN /\ call' = [op |-> "vel_u", U |-> U, S |-> <<>>, P |-> <<>>, sparse |-> sp]
           /\ pre' = parameters
           /\ parameters' = r.parameters
           /\ ret' = r.ret
           /\ est' = written_back(est, parameters')
           /\ UNCHANGED <<created, est_call, est_pre, metric_vars>>

VelS ==
    \E C \in Cells, sp \in BOOLEAN :
        LET U == counts(C)
            S == counts2(C)
            r == vel_s(parameters, U, S, sp)
        IN /\ call' = [op |-> "vel_s", U |-> U, S |-> S, P |-> <<>>, sparse |-> sp]
           /\ pre' = parameters
           /\ parameters' = r.parameters
           /\ ret' = r.ret
           /\ est' = written_back(est, parameters')
           /\ UNCHANGED <<created, est_call, est_pre, metric_vars>>

VelP ==
    \E C \in Cells, sp \in BOOLEAN :
        LET S == counts(C)
            P == counts2(C)
            r == vel_p(parameters, S, P, sp)
        IN /\ call' = [op |-> "vel_p", U |-> <<>>, S |-> S, P |-> P, sparse |-> sp]
           /\ pre' = parameters
           /\ parameters' = r.parameters
           /\ ret' = r.ret
           /\ est' = written_back(est, parameters')
           /\ UNCHANGED <<created, est_call, est_pre, metric_vars>>

Next == VelU \/ VelS \/ VelP

Spec == Init /\ [][Next]_vars

\* The experiment descriptors: the types fit dispatches on (the one-shot type
\* in both spellings), the mRNA assumption read for a conventional experiment.
Descriptors ==
    {[extyp |-> x, asspt_mRNA |-> "none"] :
        x \in {"deg", "kin", "one_shot", "one-shot", "mix_std_stm", "conventional"}}
    \cup {[extyp |-> "conventional", asspt_mRNA |-> "ss"]}

\* The layers that are not None; the second moments come together.
DataSets == {D \in SUBSET Layers : ("us" \in D) <=> ("s2" \in D)}

\* The genes on which fit_first_order_deg_lsq raises: none, or the first.
SolverFailures == {{}, {1}}

\* One time per cell.
CellTimes == {Vec([c \in 1..MaxCells |-> c % T]) : T \in 1..MaxTimes}

ProteinIndices == {None, Vec(<<>>), Vec(<<1>>)}

\* assumption_protein: the steady state, or anything else.
ProteinAssumptions == {"ss", "none"}

\* The protein index map with the protein assumption: every map under the
\* steady state, a map with an entry under another assumption.
ProteinSetups ==
    {ps \in [ind : ProteinIndices, asspt : ProteinAssumptions] :
        ps.asspt = "ss" \/ (ps.ind.kind = "vec" /\ Len(ps.ind.v) > 0)}

Clusterings == {None} \cup {[kind |-> "list", n |-> k] : k \in 1..MaxClusters}

\* estimation.__init__: the data and the descriptor are stored, every
\* parameter is None.
EstInit ==
    /\ \E d \in Descriptors, D \in DataSets, t \in CellTimes,
          ps \in ProteinSetups, sp \in BOOLEAN, f \in SolverFailures :
          est = [extyp |-> d.extyp, asspt_mRNA |-> d.asspt_mRNA, asspt_prot |-> ps.asspt,
                 data |-> D, sparse |-> sp, t |-> t, ind_for_proteins |-> ps.ind,
                 fails |-> f, parameters |-> NoParameters,
                 aux_param |-> NoAux]
    /\ est_call = NoEstCall
    /\ est_pre = NoParameters
    /\ NoVelocity
    /\ NoMetric

Fit ==
    \E clusters \in Clusterings, one_shot_method \in {"combined", "sci-fate"} :
        LET r == fit(est, clusters, one_shot_method)
        IN /\ est' = [est EXCEPT !.parameters = r.parameters,
                                  !.aux_param = aux_after(est, clusters, one_shot_method)]
           /\ est_call' = [op |-> "fit", name |-> "", value |-> None,
                           clusters |-> clusters,
                           one_shot_method |-> one_shot_method, raised |-> r.raised,
                           writes |-> store_writes(est, clusters, one_shot_method)]
           /\ est_pre' = est.parameters
           /\ UNCHANGED <<vel_vars, metric_vars>>

\* The values given to set_parameter: a scalar, a per-gene vector, a matrix.
PresetScalar == 3

SetValues(name) ==
    {Scalar(PresetScalar), Vec(per_gene(name)), Mat(per_column(name, MaxTimes))}

SetParameter ==
    \E name \in ParamNames :
        \E value \in SetValues(name) :
            LET r == set_parameter(est, name, value)
            IN /\ est' = [est EXCEPT !.parameters = r.parameters]
               /\ est_call' = [op |-> "set_parameter", name |-> name, value |-> value,
                               clusters |-> None, one_shot_method |-> "",
                               raised |-> r.raised,
                               writes |-> [n \in ParamNames |->
                                             IF n = name /\ r.raised = "none"
                                             THEN 1 ELSE 0]]
               /\ est_pre' = est.parameters
               /\ UNCHANGED <<vel_vars, metric_vars>>

\* Fitting alone, on a fresh instance of every descriptor and data set.
SpecFit == EstInit /\ [][Fit]_vars

\* Presetting parameters and fitting.
EstNext == Fit \/ SetParameter

\* The documented values of set_parameter: a scalar or a per-gene vector.
PresetValues(name) == {Scalar(PresetScalar), Vec(per_gene(name))}

\* set_parameter called for a rate constant that fit tests before fitting.
Preset ==
    \E name \in {"beta", "gamma"} :
        \E value \in PresetValues(name) :
            LET r == set_parameter(est, name, value)
            IN /\ est' = [est EXCEPT !.parameters = r.parameters]
               /\ est_call' = [op |-> "set_parameter", name |-> name, value |-> value,
                               clusters |-> None, one_shot_method |-> "",
                               raised |-> r.raised,
                               writes |-> [n \in ParamNames |->
                                             IF n = name /\ r.raised = "none"
                                             THEN 1 ELSE 0]]
               /\ est_pre' = est.parameters
               /\ UNCHANGED <<vel_vars, metric_vars>>

\* Labelling experiments with the unlabelled and labelled layers, with and
\* without sl, at one or several labelling times.
PresetInit ==
    /\ \E x \in {"kin", "one_shot", "one-shot"}, D \in {{"ul", "uu", "su"}, {"ul", "uu", "sl", "su"}},
          t \in CellTimes, f \in SolverFailures :
          est = [extyp |-> x, asspt_mRNA |-> "none", asspt_prot |-> "ss",
                 data |-> D, sparse |-> FALSE, t |-> t, ind_for_proteins |-> None,
                 fails |-> f, parameters |-> NoParameters,
                 aux_param |-> NoAux]
    /\ est_call = NoEstCall
    /\ est_pre = NoParameters
    /\ NoVelocity
    /\ NoMetric

PresetNext == Preset \/ Fit

\* Presetting beta and gamma by hand and fitting, in any order.
SpecPreset == PresetInit /\ [][PresetNext]_vars

\* Diagnostics left by earlier work on the instance: none, or all of them.
AuxContents == {NoAux, [k \in AuxNames |-> [kind |-> "given"]]}

\* Instances of every descriptor whose diagnostics hold anything.
AuxInit ==
    /\ \E d \in Descriptors, t \in CellTimes, sp \in BOOLEAN, aux \in AuxContents,
          D \in {{"uu", "su"}, {"ul", "uu"}, {"ul", "uu", "su"}, {"ul", "uu", "sl", "su"},
                 {"uu", "su", "p"}} :
          est = [extyp |-> d.extyp, asspt_mRNA |-> d.asspt_mRNA, asspt_prot |-> "ss",
                 data |-> D, sparse |-> sp, t |-> t, ind_for_proteins |-> Vec(<<1>>),
                 fails |-> {}, parameters |-> NoParameters, aux_param |-> aux]
    /\ est_call = NoEstCall
    /\ est_pre = NoParameters
    /\ NoVelocity
    /\ NoMetric

\* Fitting on instances that differ in their diagnostics.
SpecAux == AuxInit /\ [][Fit]_vars

\* Instances to set parameters on: with and without a data layer.
SetInit ==
    /\ \E x \in {"deg", "kin"}, D \in {{}, {"uu", "ul"}}, t \in CellTimes :
          est = [extyp |-> x, asspt_mRNA |-> "none", asspt_prot |-> "ss",
                 data |-> D, sparse |-> FALSE, t |-> t, ind_for_proteins |-> None,
                 fails |-> {}, parameters |-> NoParameters,
                 aux_param |-> NoAux]
    /\ est_call = NoEstCall
    /\ est_pre = NoParameters
    /\ NoVelocity
    /\ NoMetric

\* Setting parameters by hand, any number of times.
SpecSet == SetInit /\ [][SetParameter]_vars

\* Explicit arguments given next to an estimation instance: none, or all six.
ExplicitArgs ==
    {[n \in ParamNames \cup {"t"} |-> None],
     [n \in ParamNames \cup {"t"} |-> Vec([g \in Genes |-> 100 + g])]}

\* velocity.__init__ with an estimation instance, whose parameters (fitted,
\* or set by hand) are per-gene vectors or None.
FromInit ==
    /\ \E explicit \in ExplicitArgs, x \in {"deg", "kin"}, t \in CellTimes :
       \E P \in [alpha : Simple("alpha"), beta : Simple("beta"), gamma : Simple("gamma"),
                 eta : Simple("eta"), delta : Simple("delta")] :
          /\ est = [extyp |-> x, asspt_mRNA |-> "none", asspt_prot |-> "ss",
                    data |-> {"uu", "ul"}, sparse |-> FALSE, t |-> t,
                    ind_for_proteins |-> None, fails |-> {}, parameters |-> P,
                    aux_param |-> NoAux]
          /\ est_call = [NoEstCall EXCEPT !.op = "velocity", !.value = explicit]
          /\ parameters = velocity_init(explicit, est)
    /\ est_pre = est.parameters
    /\ created = parameters
    /\ pre = parameters
    /\ call = NoCall
    /\ ret = None
    /\ NoMetric

\* The velocity methods on an instance built from an estimation.
SpecFrom == FromInit /\ [][Next]_vars

\* ------------------------------------------- estimation: concatenation
\* The keys of self.data, in the order the constructor lists them.
LayerOrder == <<"uu", "ul", "su", "sl", "p", "us", "s2">>

\* A layer given as a list of per-condition matrices.
List(mats) == [kind |-> "list", mats |-> mats]

\* Row g of the matrices of a list, side by side.
RECURSIVE row_of(_, _)
row_of(mats, g) ==
    IF mats = <<>> THEN <<>> ELSE mats[1][g] \o row_of(Tail(mats), g)

\* The per-condition times, each repeated for the cells of its matrix.
RECURSIVE unroll(_, _)
unroll(mats, t) ==
    IF mats = <<>> THEN <<>>
    ELSE [j \in 1..ncols(mats[1]) |-> t[1]] \o unroll(Tail(mats), Tail(t))

\* concat_time_series_matrices(mats, t=None): the matrices joined along the
\* cells and, when t is given, the unrolled times.
concat_time_series_matrices(mats, t) ==
    [mat |-> Mat([g \in Genes |-> row_of(mats, g)]),
     t |-> IF t.kind = "none" THEN None ELSE Vec(unroll(mats, t.v))]

concat_step_keeps_flag(k, st) ==
    IF st.data[k].kind # "list" THEN st
    ELSE IF ~st.time_unrolled /\ st.t.kind # "none"
    THEN LET r == concat_time_series_matrices(st.data[k].mats, st.t)
         IN [st EXCEPT !.data[k] = r.mat, !.t = r.t]
    ELSE [st EXCEPT !.data[k] = concat_time_series_matrices(st.data[k].mats, None).mat]

\* One iteration of the loop of concatenate_data, on the layer named k.
concat_step(k, st) ==
    IF st.data[k].kind # "list" THEN st
    ELSE IF ~st.time_unrolled /\ st.t.kind # "none"
    THEN LET r == concat_time_series_matrices(st.data[k].mats, st.t)
         IN [st EXCEPT !.data[k] = r.mat, !.t = r.t, !.time_unrolled = TRUE]
    ELSE [st EXCEPT !.data[k] = concat_time_series_matrices(st.data[k].mats, None).mat]

RECURSIVE concat_loop(_, _)
concat_loop(keys, st) ==
    IF keys = <<>> THEN st ELSE concat_loop(Tail(keys), concat_step(keys[1], st))

\* estimation.concatenate_data: None layers are not among the keys (and are
\* no lists).
concatenate_data(data, t) ==
    concat_loop(LayerOrder, [data |-> data, t |-> t, time_unrolled |-> FALSE])

\* The data part of estimation.__init__.
construct(args) ==
    LET st == IF args.concat_data THEN concatenate_data(args.data, args.t)
              ELSE [data |-> args.data, t |-> args.t]
    IN [data |-> st.data, t |-> st.t, args |-> args]

\* Condition i of layer number l, with c cells: entries that tell the layer,
\* the condition, the gene and the cell.
condition(l, i, c) ==
    [g \in Genes |-> [j \in 1..c |-> 1000 * l + 100 * i + 10 * g + j]]

\* A layer as the constructor may be given it: None, one matrix, or a list
\* of k matrices of c cells each.
LayerArgs(l, k, c) ==
    {None, Mat(condition(l, 1, k * c)), List([i \in 1..k |-> condition(l, i, c)])}

\* Constructor arguments: three of the layers, k conditions of c cells, the
\* times None or one per condition.
ConcatInit ==
    /\ \E k \in 1..MaxTimes, c \in 1..MaxPerCondition, cd \in BOOLEAN :
       \E uu \in LayerArgs(1, k, c), ul \in LayerArgs(2, k, c), su \in LayerArgs(3, k, c),
          t \in {None, Vec([i \in 1..k |-> 2 * i]), Vec([i \in 1..k |-> 5])} :
          est = [k |-> k, c |-> c, concat_data |-> cd, t |-> t,
                 data |-> [n \in Layers |->
                             CASE n = "uu" -> uu [] n = "ul" -> ul [] n = "su" -> su
                               [] OTHER -> None]]
    /\ est_call = NoEstCall
    /\ est_pre = NoParameters
    /\ NoVelocity
    /\ NoMetric

Construct ==
    /\ est_call.op = "init"
    /\ est' = construct(est)
    /\ est_call' = [est_call EXCEPT !.op = "__init__"]
    /\ UNCHANGED <<est_pre, vel_vars, metric_vars>>

\* Constructing an estimation from its arguments.
SpecConcat == ConcatInit /\ [][Construct]_vars

\* --------------------------------------------- steady-state regression
\* A percentage, or None.
Percentages == {None} \cup {[kind |-> "perc", x |-> x] : x \in 1..MaxPerc}

\* fit_gamma_steady_state up to its call of find_extreme: the perc_left and
\* perc_right that the extreme-point mask is computed with.
fit_gamma_steady_state(intercept, perc_left, perc_right) ==
    [perc_left |-> IF ~intercept /\ perc_left = None THEN perc_right ELSE perc_left,
     perc_right |-> perc_right]

\* An estimation instance; the regression reads none of its fields.
SteadyInit ==
    /\ est = [extyp |-> "conventional", asspt_mRNA |-> "ss", asspt_prot |-> "ss",
              data |-> {"uu", "su"}, sparse |-> FALSE, t |-> None,
              ind_for_proteins |-> None, fails |-> {}, parameters |-> NoParameters,
                 aux_param |-> NoAux]
    /\ est_call = NoEstCall
    /\ est_pre = NoParameters
    /\ NoVelocity
    /\ NoMetric

FitGammaSteadyState ==
    \E intercept \in BOOLEAN, perc_left \in Percentages, perc_right \in Percentages,
       normalize \in BOOLEAN :
        /\ est_call' = [op |-> "fit_gamma_steady_state", intercept |-> intercept,
                        perc_left |-> perc_left, perc_right |-> perc_right,
                        normalize |-> normalize,
                        find_extreme |->
                            fit_gamma_steady_state(intercept, perc_left, perc_right)]
        /\ UNCHANGED <<est, est_pre, vel_vars, metric_vars>>

\* Steady-state regressions with every combination of arguments.
SpecSteady == SteadyInit /\ [][FitGammaSteadyState]_vars

\* ------------------------------------------------------ fit_alpha_oneshot
\* fit_alpha_synthesis(t, u, beta), a library function: its value is
\* determined by its arguments, u being the counts of the selected cells.
fit_alpha_synthesis(t, u, beta) ==
    [kind |-> "alpha", by |-> "fit_alpha_synthesis", t |-> t, u |-> u, beta |-> beta]

\* A list of clusters, each the cell indices it holds.
Clusters(c) == [kind |-> "list", v |-> c]

\* clusters: None, or up to MaxClusters clusters of cells.
ClusterLists(C) ==
    {None} \cup {Clusters(c) : c \in UNION {[1..k -> SUBSET (1..C)] : k \in 1..MaxClusters}}

fit_alpha_oneshot_entries_pooled(t, U, beta, clusters) ==
    LET cells == Len(U[1])
        cl == IF clusters = None THEN <<1..cells>> ELSE clusters.v
    IN [j \in Genes |->
          [i \in 1..Len(cl) |->
              IF cl[i] # {}
              THEN fit_alpha_synthesis(t, [k \in cl[i] |-> U[j][k]], beta[j])
              ELSE NaN]]

\* fit_alpha_oneshot entry by entry: alpha[j, i] is fitted from the cells of
\* cluster i in row j of U and beta[j], and is NaN for an empty cluster;
\* without clusters every cell is a cluster.
fit_alpha_oneshot_entries(t, U, beta, clusters) ==
    LET cells == Len(U[1])
        cl == IF clusters = None THEN [i \in 1..cells |-> {i}] ELSE clusters.v
    IN [j \in Genes |->
          [i \in 1..Len(cl) |->
              IF cl[i] # {}
              THEN fit_alpha_synthesis(t, [k \in cl[i] |-> U[j][k]], beta[j])
              ELSE NaN]]

\* An estimation instance; fit_alpha_oneshot reads its arguments only.
OneshotInit ==
    /\ est = [extyp |-> "one-shot", asspt_mRNA |-> "none", asspt_prot |-> "ss",
              data |-> {"uu", "ul"}, sparse |-> FALSE, t |-> None,
              ind_for_proteins |-> None, fails |-> {}, parameters |-> NoParameters,
                 aux_param |-> NoAux]
    /\ \E C \in Cells, sp \in BOOLEAN :
          \E clusters \in ClusterLists(C) :
              est_call = [op |-> "arguments", t |-> 1, U |-> counts(C), sparse |-> sp,
                          beta |-> per_gene("beta"), clusters |-> clusters,
                          alpha |-> None]
    /\ est_pre = NoParameters
    /\ NoVelocity
    /\ NoMetric

\* The call on the arguments drawn at the start.
FitAlphaOneshot ==
    /\ est_call.op = "arguments"
    /\ est_call' = [est_call EXCEPT
                      !.op = "fit_alpha_oneshot",
                      !.alpha = fit_alpha_oneshot_entries(est_call.t, est_call.U,
                                    est_call.beta, est_call.clusters)]
    /\ UNCHANGED <<est, est_pre, vel_vars, metric_vars>>

\* One-shot alpha estimates for every choice of clusters.
SpecOneshot == OneshotInit /\ [][FitAlphaOneshot]_vars

\* ------------------------------------------------- cell_wise_confidence
\* The methods cell_wise_confidence implements, and one it does not.
Supported == {"jaccard", "cosine", "correlation"}

Methods == Supported \cup {"euclidean"}

\* The function after its method dispatch, when the final else computes the
\* jaccard confidence.
confidence_or_default(a, method) ==
    IF method \in {"cosine", "correlation"}
    THEN IF a.neighbors # "indices" THEN [adata |-> a, raised |-> "KeyError"]
         ELSE IF ~a.sparse THEN [adata |-> a, raised |-> "AttributeError"]
         ELSE [adata |-> [a EXCEPT !.confidence = method], raised |-> "none"]
    ELSE [adata |-> [a EXCEPT !.confidence = "jaccard"], raised |-> "none"]

\* The dispatch on method: jaccard needs the neighbour graph only, cosine and
\* correlation read uns['neighbors']['indices'] and X[i].A (a sparse X); any
\* other name raises before adata.obs['confidence'] is assigned.
confidence(a, method) ==
    IF method = "jaccard"
    THEN [adata |-> [a EXCEPT !.confidence = "jaccard"], raised |-> "none"]
    ELSE IF method \in {"cosine", "correlation"}
    THEN IF a.neighbors # "indices" THEN [adata |-> a, raised |-> "KeyError"]
         ELSE IF ~a.sparse THEN [adata |-> a, raised |-> "AttributeError"]
         ELSE [adata |-> [a EXCEPT !.confidence = method], raised |-> "none"]
    ELSE [adata |-> a, raised |-> "Exception"]

\* cell_wise_confidence(adata, ekey, vkey, method): the layers and the
\* neighbour graph are read first. same_object is the outcome of the identity
\* test ekey is 'X', which for an equal string depends on interning.
cell_wise_confidence(a, ekey, same_object, vkey, method) ==
    IF ~(ekey = "X" /\ same_object) /\ ekey \notin a.layers
    THEN [adata |-> a, raised |-> "KeyError"]
    ELSE IF vkey \notin a.layers THEN [adata |-> a, raised |-> "KeyError"]
    ELSE IF a.neighbors = "none" THEN [adata |-> a, raised |-> "KeyError"]
    ELSE confidence(a, method)

\* Data objects: the layers present, the neighbour graph (absent, with its
\* parameters and connectivities, or with the indices too), sparse or dense
\* matrices, no confidence column yet.
MetricInit ==
    /\ \E L \in SUBSET {"M_s", "velocity_S"}, nb \in {"none", "params", "indices"},
          sp \in BOOLEAN :
          adata = [layers |-> L, neighbors |-> nb, sparse |-> sp, confidence |-> "none"]
    /\ metric = [op |-> "init", method |-> "", ekey |-> "", vkey |-> "",
                 raised |-> "none", before |-> "none"]
    /\ NoVelocity
    /\ NoEstimation

CellWiseConfidence ==
    \E ekey \in {"X", "M_s"}, same_object \in BOOLEAN,
       vkey \in {"velocity_S", "velocity_U"}, method \in Methods :
        LET r == cell_wise_confidence(adata, ekey, same_object, vkey, method)
        IN /\ adata' = r.adata
           /\ metric' = [op |-> "cell_wise_confidence", method |-> method, ekey |-> ekey,
                         vkey |-> vkey, raised |-> r.raised, before |-> adata.confidence]
           /\ UNCHANGED <<vel_vars, est_vars>>

\* Confidence calls on one data object.
SpecMetric == MetricInit /\ [][CellWiseConfidence]_vars

\* ------------------------------------------------- velocity: the claims
IsMatrix(r) == r.kind \in {"mat", "csr"}

CallCells == ncols(IF call.op = "vel_p" THEN call.S ELSE call.U)

\* Entry (g, c) of a per-gene vector (the same for every cell) or of a matrix.
entry(x, g, c) == IF x.kind = "vec" THEN x.v[g] ELSE x.m[g][c]

\* Entry (g, c) of a genes x T matrix read at the column of cell c's time.
timed(x, t, g, c) == IF x.kind = "vec" THEN x.v[g] ELSE x.m[g][uniq_index(t, t.v[c])]

AsVector(x) == x.kind = "vec"

\* A genes x cells matrix matching the count matrix of the call.
PerCell(x) == x.kind = "mat" /\ ncols(x.m) = CallCells

\* A genes x T matrix, T >= 2 the number of unique times and not the number
\* of cells, with one time per cell.
PerTime(x) ==
    /\ x.kind = "mat"
    /\ pre.t.kind = "vec"
    /\ Len(pre.t.v) = CallCells
    /\ ncols(x.m) = len_t_uniq(pre.t)
    /\ ncols(x.m) >= 2
    /\ ncols(x.m) # CallCells

\* C2: the velocity methods are read-only on the stored parameters: after any
\* sequence of vel_u, vel_s and vel_p calls each of alpha, beta, gamma, eta,
\* delta and t is as the constructor stored it.
C2_ReadOnly == parameters = created

\* C3: with every present parameter a per-gene vector, vel_u, vel_s and vel_p
\* return a matrix or the NaN sentinel and never raise, whichever parameters
\* are absent.
C3_NeverRaises ==
    (call.op # "init" /\ \A n \in ParamNames : created[n].kind \in {"none", "vec"})
        => (IsMatrix(ret) \/ ret = NaN)

\* C4: with alpha absent vel_u returns the NaN sentinel (and does not raise),
\* whatever beta, gamma and t are.
C4_NoAlphaIsNaN ==
    (call.op = "vel_u" /\ pre.alpha.kind = "none") => ret = NaN

C4_Witness ==
    /\ call.op = "vel_u"
    /\ pre.alpha.kind = "none"
    /\ pre.beta.kind = "mat"
    /\ pre.gamma.kind = "vec"
    /\ pre.t.kind = "vec"
    /\ ret = NaN

\* C5: with alpha and beta stored as per-gene vectors, vel_u(U) has the shape
\* of U and its entry (g, c) is alpha[g] - beta[g] * U[g, c].
C5_VelocityBroadcast ==
    (call.op = "vel_u" /\ AsVector(pre.alpha) /\ AsVector(pre.beta)) =>
        /\ IsMatrix(ret)
        /\ ret.m = [g \in Genes |-> [c \in 1..CallCells |->
                      pre.alpha.v[g] - pre.beta.v[g] * call.U[g][c]]]

C5_Witness ==
    /\ call.op = "vel_u"
    /\ AsVector(pre.alpha)
    /\ AsVector(pre.beta)
    /\ CallCells = MaxCells
    /\ IsMatrix(ret)
    /\ ret.m[NGenes][MaxCells] =
         pre.alpha.v[NGenes] - pre.beta.v[NGenes] * call.U[NGenes][MaxCells]

\* C6 (as claimed): with beta absent and alpha and gamma per-gene vectors,
\* entry (g, c) of vel_s(U, S) is alpha[g] * U[g, c] - gamma[g] * S[g, c].
C6_AlphaTimesU ==
    (call.op = "vel_s" /\ pre.beta.kind = "none"
        /\ AsVector(pre.alpha) /\ AsVector(pre.gamma)) =>
        /\ IsMatrix(ret)
        /\ ret.m = [g \in Genes |-> [c \in 1..CallCells |->
                      pre.alpha.v[g] * call.U[g][c] - pre.gamma.v[g] * call.S[g][c]]]

\* C6 (amended): with beta absent in the stored parameters when vel_s is
\* called and alpha and gamma per-gene vectors, vel_s(U, S) has the shape of
\* U and its entry (g, c) is alpha[g] - gamma[g] * S[g, c]: alpha takes the
\* place of the whole term beta * U.
C6_AlphaMinusGammaS ==
    (call.op = "vel_s" /\ pre.beta.kind = "none"
        /\ AsVector(pre.alpha) /\ AsVector(pre.gamma)) =>
        /\ IsMatrix(ret)
        /\ ret.m = [g \in Genes |-> [c \in 1..CallCells |->
                      pre.alpha.v[g] - pre.gamma.v[g] * call.S[g][c]]]

C6_Witness ==
    /\ call.op = "vel_s"
    /\ pre.beta.kind = "none"
    /\ AsVector(pre.alpha)
    /\ AsVector(pre.gamma)
    /\ CallCells = MaxCells
    /\ IsMatrix(ret)
    /\ ret.m[1][1] = pre.alpha.v[1] - pre.gamma.v[1] * call.S[1][1]
    /\ ret.m[1][1] # pre.alpha.v[1] * call.U[1][1] - pre.gamma.v[1] * call.S[1][1]

\* C7: on an instance built with beta absent and alpha and gamma per-gene
\* vectors, entry (g, c) of vel_u(U) is alpha[g] - gamma[g] * U[g, c], whatever
\* calls of vel_u, vel_s and vel_p came before.
C7_HistoryIndependent ==
    (call.op = "vel_u" /\ created.beta.kind = "none"
        /\ AsVector(created.alpha) /\ AsVector(created.gamma)) =>
        /\ IsMatrix(ret)
        /\ ret.m = [g \in Genes |-> [c \in 1..CallCells |->
                      created.alpha.v[g] - created.gamma.v[g] * call.U[g][c]]]

\* C8: vel_p(S, P) returns the NaN sentinel exactly when eta or delta is
\* absent; with both per-gene vectors the result has the shape of S and its
\* entry (g, c) is eta[g] * S[g, c] - delta[g] * P[g, c].
C8_ProteinVelocity ==
    (call.op = "vel_p") =>
        /\ (ret = NaN) <=> (pre.eta.kind = "none" \/ pre.delta.kind = "none")
        /\ (AsVector(pre.eta) /\ AsVector(pre.delta)) =>
              /\ IsMatrix(ret)
              /\ ret.m = [g \in Genes |-> [c \in 1..CallCells |->
                            pre.eta.v[g] * call.S[g][c] - pre.delta.v[g] * call.P[g][c]]]

C8_Witness ==
    /\ call.op = "vel_p"
    /\ AsVector(pre.eta)
    /\ AsVector(pre.delta)
    /\ CallCells = MaxCells
    /\ IsMatrix(ret)
    /\ ret.m[NGenes][MaxCells] =
         pre.eta.v[NGenes] * call.S[NGenes][MaxCells]
           - pre.delta.v[NGenes] * call.P[NGenes][MaxCells]

\* C9: a parameter stored as a genes x cells matrix matching the count matrix
\* is used as it is by the method that uses it (alpha and beta in vel_u, beta
\* and gamma in vel_s, eta and delta in vel_p): the result has the shape of
\* the count matrix and entry (g, c) is computed from the parameter's (g, c).
C9_PerCellAsIs ==
    /\ (call.op = "vel_u"
          /\ (PerCell(pre.alpha) \/ AsVector(pre.alpha))
          /\ (PerCell(pre.beta) \/ AsVector(pre.beta))) =>
          /\ IsMatrix(ret)
          /\ ret.m = [g \in Genes |-> [c \in 1..CallCells |->
                        entry(pre.alpha, g, c) - entry(pre.beta, g, c) * call.U[g][c]]]
    /\ (call.op = "vel_s"
          /\ (PerCell(pre.beta) \/ AsVector(pre.beta))
          /\ (PerCell(pre.gamma) \/ AsVector(pre.gamma))) =>
          /\ IsMatrix(ret)
          /\ ret.m = [g \in Genes |-> [c \in 1..CallCells |->
                        entry(pre.beta, g, c) * call.U[g][c]
                          - entry(pre.gamma, g, c) * call.S[g][c]]]
    /\ (call.op = "vel_p"
          /\ (PerCell(pre.eta) \/ AsVector(pre.eta))
          /\ (PerCell(pre.delta) \/ AsVector(pre.delta))) =>
          /\ IsMatrix(ret)
          /\ ret.m = [g \in Genes |-> [c \in 1..CallCells |->
                        entry(pre.eta, g, c) * call.S[g][c]
                          - entry(pre.delta, g, c) * call.P[g][c]]]

\* C10: a parameter stored as a genes x T matrix (T >= 2 unique times, T not
\* the number of cells) is expanded so that cell c uses the column of the
\* unique time equal to t[c]; the call completes with a genes x cells result.
C10_PerTimeExpanded ==
    /\ (call.op = "vel_u"
          /\ (PerTime(pre.alpha) \/ AsVector(pre.alpha))
          /\ (PerTime(pre.beta) \/ AsVector(pre.beta))) =>
          /\ IsMatrix(ret)
          /\ ret.m = [g \in Genes |-> [c \in 1..CallCells |->
                        timed(pre.alpha, pre.t, g, c)
                          - timed(pre.beta, pre.t, g, c) * call.U[g][c]]]
    /\ (call.op = "vel_s"
          /\ (PerTime(pre.beta) \/ AsVector(pre.beta))
          /\ (PerTime(pre.gamma) \/ AsVector(pre.gamma))) =>
          /\ IsMatrix(ret)
          /\ ret.m = [g \in Genes |-> [c \in 1..CallCells |->
                        timed(pre.beta, pre.t, g, c) * call.U[g][c]
                          - timed(pre.gamma, pre.t, g, c) * call.S[g][c]]]
    /\ (call.op = "vel_p"
          /\ (PerTime(pre.eta) \/ AsVector(pre.eta))
          /\ (PerTime(pre.delta) \/ AsVector(pre.delta))) =>
          /\ IsMatrix(ret)
          /\ ret.m = [g \in Genes |-> [c \in 1..CallCells |->
                        timed(pre.eta, pre.t, g, c) * call.S[g][c]
                          - timed(pre.delta, pre.t, g, c) * call.P[g][c]]]

\* A genes x k matrix whose k is neither the number of cells of the call nor
\* the number of unique time values.
Mismatched(x) ==
    /\ x.kind = "mat"
    /\ ncols(x.m) # CallCells
    /\ ncols(x.m) # len_t_uniq(pre.t)

\* The value of gene g in the first column of a matrix (or in a vector).
first(x, g) == IF x.kind = "vec" THEN x.v[g] ELSE x.m[g][1]

\* C11: a parameter stored as a genes x k matrix, k neither the number of
\* cells nor the number of unique times, is broadcast by replicating its first
\* column: the result is genes x cells and every cell uses column 0.
C11_FallbackFirstColumn ==
    /\ (call.op = "vel_u"
          /\ (Mismatched(pre.alpha) \/ AsVector(pre.alpha))
          /\ (Mismatched(pre.beta) \/ AsVector(pre.beta))) =>
          /\ IsMatrix(ret)
          /\ ret.m = [g \in Genes |-> [c \in 1..CallCells |->
                        first(pre.alpha, g) - first(pre.beta, g) * call.U[g][c]]]
    /\ (call.op = "vel_s"
          /\ (Mismatched(pre.beta) \/ AsVector(pre.beta))
          /\ (Mismatched(pre.gamma) \/ AsVector(pre.gamma))) =>
          /\ IsMatrix(ret)
          /\ ret.m = [g \in Genes |-> [c \in 1..CallCells |->
                        first(pre.beta, g) * call.U[g][c]
                          - first(pre.gamma, g) * call.S[g][c]]]
    /\ (call.op = "vel_p"
          /\ (Mismatched(pre.eta) \/ AsVector(pre.eta))
          /\ (Mismatched(pre.delta) \/ AsVector(pre.delta))) =>
          /\ IsMatrix(ret)
          /\ ret.m = [g \in Genes |-> [c \in 1..CallCells |->
                        first(pre.eta, g) * call.S[g][c]
                          - first(pre.delta, g) * call.P[g][c]]]


\* ------------------------------------------------ estimation: the claims
\* C1: fit raises the configuration error ("one-shot experiment should
\* involve only one time point") whenever the experiment type is one-shot, in
\* either spelling, and the time vector holds more than one distinct value,
\* whichever data layers are present (at least one of them is).
C1_OneShotManyTimesRaises ==
    (est_call.op = "fit" /\ est.extyp \in {"one_shot", "one-shot"}
        /\ len_t_uniq(est.t) > 1 /\ est.data # {})
        => est_call.raised = "Exception"

\* C12: an absent data layer never aborts fit: for every experiment type and
\* every subset of present layers (no layer at all included), a fit that is
\* not the one-shot configuration error returns without raising.
C12_MissingLayerNeverAborts ==
    (est_call.op = "fit"
        /\ ~(est.extyp \in {"one_shot", "one-shot"} /\ len_t_uniq(est.t) > 1))
        => est_call.raised = "none"

\* The no-splicing decay paths of fit: degradation with ul and no sl, and the
\* kinetics branch (also taken by 'one_shot' with more than one time) with ul
\* and uu and no su.
NoSplicingDecay ==
    \/ est.extyp = "deg" /\ "ul" \in est.data /\ "sl" \notin est.data
    \/ /\ est.extyp \in {"kin", "one_shot"} /\ len_t_uniq(est.t) > 1
       /\ {"ul", "uu"} \subseteq est.data /\ "su" \notin est.data

\* C13: in the no-splicing decay paths a solver failure on one gene is
\* contained: fit completes, that gene's gamma is zero and the other genes'
\* estimates are those of the solver.
C13_SolverFailureContained ==
    (est_call.op = "fit" /\ NoSplicingDecay /\ est.fails # {}) =>
        /\ est_call.raised = "none"
        /\ est.parameters.gamma.kind = "vec"
        /\ est.parameters.gamma.zero = est.fails

\* C14: after a completed fit every rate parameter stored as a 2-D matrix has
\* as many columns as there are cells or as there are unique time values.
C14_MatrixColumns ==
    (est_call.op = "fit" /\ est_call.raised = "none") =>
        \A name \in ParamNames :
            est.parameters[name].kind = "mat" =>
                est.parameters[name].cols \in {n_cells(est), len_t_uniq(est.t)}

\* C15: during one fit invocation the parameter store is append-only: each
\* of alpha, beta, gamma, eta and delta is written at most once, and no
\* parameter that was set is reset to None, in every branch.
C15_WrittenOnce ==
    est_call.op = "fit" =>
        \A name \in ParamNames :
            /\ est_call.writes[name] <= 1
            /\ est_pre[name].kind # "none" => est.parameters[name].kind # "none"

\* C16: set_parameter(name, value) with a scalar stores under name a vector
\* of length n_genes (some layer being present, so that n_genes exists) whose
\* entries all equal the scalar; any other value is stored unchanged; every
\* other parameter is left as it was.
C16_SetParameter ==
    (est_call.op = "set_parameter" /\ est.data # {}) =>
        /\ est_call.raised = "none"
        /\ est_call.value.kind = "scalar" =>
             /\ est.parameters[est_call.name].kind = "vec"
             /\ Len(est.parameters[est_call.name].v) = NGenes
             /\ \A g \in Genes : est.parameters[est_call.name].v[g] = est_call.value.x
        /\ est_call.value.kind # "scalar" =>
             est.parameters[est_call.name] = est_call.value
        /\ \A n \in ParamNames \ {est_call.name} : est.parameters[n] = est_pre[n]

\* A scalar was set on top of other parameters set before.
C16_Witness ==
    /\ est_call.op = "set_parameter"
    /\ est_call.value = Scalar(PresetScalar)
    /\ est_call.raised = "none"
    /\ est.parameters[est_call.name] = Vec([g \in Genes |-> PresetScalar])
    /\ \E n \in ParamNames \ {est_call.name} : est.parameters[n].kind = "mat"

\* C17: with concat_data on, a layer given as a list of k matrices of c cells
\* becomes one matrix of k*c columns in the original column order, and times
\* given one per condition become a vector of length k*c grouped per
\* condition, unrolled once however many layers are lists.
C17_Concatenation ==
    (est_call.op = "__init__" /\ est.args.concat_data) =>
        LET a == est.args
            lists == {n \in Layers : a.data[n].kind = "list"}
        IN /\ \A n \in lists :
                /\ est.data[n].kind = "mat"
                /\ ncols(est.data[n].m) = a.k * a.c
                /\ \A i \in 1..a.k, j \in 1..a.c, g \in Genes :
                      est.data[n].m[g][(i - 1) * a.c + j] = a.data[n].mats[i][g][j]
           /\ (lists # {} /\ a.t.kind = "vec") =>
                /\ est.t.kind = "vec"
                /\ Len(est.t.v) = a.k * a.c
                /\ \A i \in 1..a.k, j \in 1..a.c : est.t.v[(i - 1) * a.c + j] = a.t.v[i]

\* Three layers were lists of MaxTimes conditions of MaxPerCondition cells, with
\* distinct times.
C17_Witness ==
    /\ est_call.op = "__init__"
    /\ est.args.concat_data
    /\ est.args.k = MaxTimes /\ est.args.c = MaxPerCondition
    /\ \A n \in {"uu", "ul", "su"} : est.args.data[n].kind = "list"
    /\ est.args.t = Vec([i \in 1..MaxTimes |-> 2 * i])
    /\ est.t = Vec([x \in 1..(MaxTimes * MaxPerCondition) |-> 2 * (((x - 1) \div MaxPerCondition) + 1)])

\* C18: a velocity built from an estimation instance takes its five rate
\* parameters and its time vector from that instance, whatever the explicit
\* arguments, and no sequence of vel_u, vel_s, vel_p calls changes which
\* parameters of the estimation instance are set.
C18_FromEstimation ==
    est_call.op = "velocity" =>
        /\ \A n \in ParamNames : created[n] = est_pre[n]
        /\ created.t = est.t
        /\ \A n \in ParamNames :
              (est.parameters[n] = None) <=> (est_pre[n] = None)

\* vel_s substituted alpha for the absent beta in the velocity's own
\* parameters, explicit arguments having been given as well.
C18_Witness ==
    /\ est_call.op = "velocity"
    /\ est_call.value.beta # None
    /\ call.op = "vel_s"
    /\ est_pre.beta = None
    /\ parameters.beta # None
    /\ est.parameters.beta = None

\* C19: cell_wise_confidence with a method name other than 'jaccard',
\* 'cosine' or 'correlation' raises and writes no confidence column.
C19_UnsupportedMethodRaises ==
    (metric.op = "cell_wise_confidence" /\ metric.method \notin Supported) =>
        /\ metric.raised # "none"
        /\ adata.confidence = metric.before

\* An unsupported method was asked for on a data object that has everything
\* the supported methods need, and reached the dispatch.
C19_Witness ==
    /\ metric.op = "cell_wise_confidence"
    /\ metric.method \notin Supported
    /\ metric.raised = "Exception"
    /\ adata.neighbors = "indices" /\ adata.sparse
    /\ adata.confidence = "cosine"

\* C20: in fit_gamma_steady_state, when an unfixed-intercept fit is requested
\* (intercept is true) and no left percentage is given, the left percentage
\* passed to the extreme-point mask equals the right percentage.
C20_LeftDefaultsToRight ==
    (est_call.op = "fit_gamma_steady_state" /\ est_call.intercept
        /\ est_call.perc_left = None) =>
        est_call.find_extreme.perc_left = est_call.perc_right

\* C21: for a conventional experiment with uu and su present, under either
\* mRNA assumption, a completed fit sets beta to the all-ones vector of length
\* n_genes and gamma to a vector of length n_genes, and leaves alpha None.
C21_Conventional ==
    (est_call.op = "fit" /\ est.extyp = "conventional"
        /\ {"uu", "su"} \subseteq est.data /\ est_call.raised = "none") =>
        /\ est.parameters.beta = vector(NGenes, "ones")
        /\ est.parameters.gamma.kind = "vec"
        /\ est.parameters.gamma.len = NGenes
        /\ est.parameters.alpha = None

\* A conventional fit without the steady-state assumption completed, with the
\* second moments at hand.
C21_Witness ==
    /\ est_call.op = "fit" /\ est_call.raised = "none"
    /\ est.extyp = "conventional" /\ est.asspt_mRNA # "ss"
    /\ {"uu", "su", "us", "s2"} \subseteq est.data
    /\ est.parameters.beta = vector(NGenes, "ones")
    /\ est.parameters.gamma = vector(NGenes, "fit_gamma_stochastic")

\* The protein parameters are to be fitted: p and su present, the protein
\* assumption the steady state, a protein index map with an entry.
ProteinFit ==
    /\ {"p", "su"} \subseteq est.data
    /\ est.asspt_prot = "ss"
    /\ est.ind_for_proteins.kind = "vec"
    /\ Len(est.ind_for_proteins.v) > 0

\* C22: after a completed fit, whatever the experiment type, eta and delta are
\* set if and only if p and su are present, the protein assumption is the
\* steady state and the protein index map is non-empty; eta is then all ones
\* and delta a vector of the same length, one entry per protein index.
C22_ProteinParameters ==
    (est_call.op = "fit" /\ est_call.raised = "none") =>
        /\ (est.parameters.eta # None) <=> ProteinFit
        /\ (est.parameters.delta # None) <=> ProteinFit
        /\ ProteinFit =>
             /\ est.parameters.eta = vector(Len(est.ind_for_proteins.v), "ones")
             /\ est.parameters.delta.kind = "vec"
             /\ est.parameters.delta.len = Len(est.ind_for_proteins.v)

\* Protein parameters were fitted after the mRNA part of a kinetics fit.
C22_Witness ==
    /\ est_call.op = "fit" /\ est_call.raised = "none"
    /\ ProteinFit
    /\ est.extyp = "kin"
    /\ est.parameters.alpha # None
    /\ est.parameters.eta # None /\ est.parameters.delta # None

\* The last call was a fit that returned, and it assigned exactly the
\* parameters in W, once each.
FitWrote(W) ==
    /\ est_call.op = "fit" /\ est_call.raised = "none"
    /\ \A n \in ParamNames : est_call.writes[n] = IF n \in W THEN 1 ELSE 0

\* C23: a kinetics fit over several labelling times with ul, uu and su that
\* returns leaves a preset beta, and gamma with it (None if it was None), as
\* they were and writes alpha only; with beta not preset it writes beta, gamma
\* and alpha.
C23_KineticPreset ==
    (est_call.op = "fit" /\ est_call.raised = "none" /\ est.extyp = "kin"
        /\ len_t_uniq(est.t) > 1 /\ {"ul", "uu", "su"} \subseteq est.data) =>
        IF est_pre.beta # None
        THEN /\ FitWrote({"alpha"})
             /\ est.parameters.beta = est_pre.beta
             /\ est.parameters.gamma = est_pre.gamma
             /\ est.parameters.alpha = vector(NGenes, "fit_alpha_synthesis")
        ELSE /\ FitWrote({"alpha", "beta", "gamma"})
             /\ est.parameters.beta = vector(NGenes, "fit_beta_gamma_lsq")
             /\ est.parameters.gamma = vector(NGenes, "fit_beta_gamma_lsq")
             /\ est.parameters.alpha = vector(NGenes, "fit_alpha_synthesis")

\* A kinetics fit after beta alone was preset: gamma is still None.
C23_Witness ==
    /\ FitWrote({"alpha"})
    /\ est.extyp = "kin" /\ len_t_uniq(est.t) > 1
    /\ {"ul", "uu", "su"} \subseteq est.data
    /\ est_pre.beta # None /\ est_pre.gamma = None
    /\ est.parameters.beta = est_pre.beta
    /\ est.parameters.gamma = None
    /\ est.parameters.alpha # None

\* C24: a one-shot fit at a single labelling time with ul, uu, sl and su
\* leaves beta and gamma as they were, writing alpha only, exactly when both
\* were preset; with at most one of them preset it overwrites both with
\* derived values.
C24_OneShotPreset ==
    (est_call.op = "fit" /\ est.extyp \in {"one_shot", "one-shot"}
        /\ len_t_uniq(est.t) = 1 /\ {"ul", "uu", "sl", "su"} \subseteq est.data) =>
        IF est_pre.beta # None /\ est_pre.gamma # None
        THEN /\ FitWrote({"alpha"})
             /\ est.parameters.beta = est_pre.beta
             /\ est.parameters.gamma = est_pre.gamma
             /\ est.parameters.alpha.kind = "mat"
        ELSE /\ FitWrote({"alpha", "beta", "gamma"})
             /\ est.parameters.beta = vector(NGenes, "solve_gamma")
             /\ est.parameters.gamma = vector(NGenes, "solve_gamma")
             /\ est.parameters.alpha = vector(NGenes, "fit_alpha_synthesis")

\* A one-shot fit after gamma alone was preset by hand: the preset gamma is
\* gone.
C24_Witness ==
    /\ FitWrote({"alpha", "beta", "gamma"})
    /\ est.extyp \in {"one_shot", "one-shot"} /\ len_t_uniq(est.t) = 1
    /\ {"ul", "uu", "sl", "su"} \subseteq est.data
    /\ est_pre.beta = None
    /\ est_pre.gamma = Vec(per_gene("gamma"))
    /\ est.parameters.gamma = vector(NGenes, "solve_gamma")

\* C25: a one-shot fit at a single labelling time with only ul and uu, no
\* preset gamma and one_shot_method 'combined' completes for a dense as for a
\* sparse ul; gamma is then a vector of length n_genes and alpha has one row
\* per gene, with the shape of ul.
C25_CombinedCompletes ==
    (est_call.op = "fit" /\ est.extyp \in {"one_shot", "one-shot"}
        /\ len_t_uniq(est.t) = 1
        /\ {"ul", "uu"} \subseteq est.data /\ est.data \cap {"sl", "su"} = {}
        /\ est_pre.gamma = None /\ est_call.one_shot_method = "combined") =>
        /\ est_call.raised = "none"
        /\ est.parameters.gamma.kind = "vec"
        /\ est.parameters.gamma.len = NGenes
        /\ est.parameters.alpha.kind = "mat"
        /\ est.parameters.alpha.rows = NGenes
        /\ est.parameters.alpha.cols = n_cells(est)

\* C26: a completed fit of a mixed steady-state/stimulation experiment with
\* only ul and uu sets beta to the all-ones vector, gamma to a per-gene vector
\* and alpha to a pair (alpha_std, alpha_stm) in which alpha_stm has one
\* column per unique time value and alpha_std as its first column.
C26_MixStdStm ==
    (est_call.op = "fit" /\ est_call.raised = "none" /\ est.extyp = "mix_std_stm"
        /\ {"ul", "uu"} \subseteq est.data /\ "su" \notin est.data) =>
        /\ est.parameters.beta = vector(NGenes, "ones")
        /\ est.parameters.gamma.kind = "vec"
        /\ est.parameters.gamma.len = NGenes
        /\ est.parameters.alpha.kind = "tuple"
        /\ est.parameters.alpha.std.kind = "vec"
        /\ est.parameters.alpha.std.len = NGenes
        /\ est.parameters.alpha.stm.kind = "mat"
        /\ est.parameters.alpha.stm.rows = NGenes
        /\ est.parameters.alpha.stm.cols = len_t_uniq(est.t)
        /\ est.parameters.alpha.stm.first = est.parameters.alpha.std

\* A mixed experiment over several labelling times was fitted.
C26_Witness ==
    /\ est_call.op = "fit" /\ est_call.raised = "none"
    /\ est.extyp = "mix_std_stm"
    /\ {"ul", "uu"} \subseteq est.data /\ "su" \notin est.data
    /\ len_t_uniq(est.t) > 1
    /\ est.parameters.alpha.kind = "tuple"
    /\ est.parameters.alpha.stm.cols = len_t_uniq(est.t)

\* The clusters fit_alpha_oneshot works with in the last call.
CallClusters ==
    IF est_call.clusters = None
    THEN [i \in 1..Len(est_call.U[1]) |-> {i}]
    ELSE est_call.clusters.v

\* C27: fit_alpha_oneshot returns one row per gene and one column per
\* cluster, one column per cell when clusters is None (each cell a cluster of
\* its own); the column of an empty cluster is NaN for every gene, and every
\* other column is what its cluster gives on its own.
C27_AlphaOneshot ==
    est_call.op = "fit_alpha_oneshot" =>
        LET a == est_call.alpha
            U == est_call.U
        IN /\ DOMAIN a = Genes
           /\ \A j \in Genes :
                /\ Len(a[j]) = IF est_call.clusters = None THEN Len(U[1])
                               ELSE Len(est_call.clusters.v)
                /\ \A i \in 1..Len(a[j]) :
                     IF CallClusters[i] = {}
                     THEN a[j][i] = NaN
                     ELSE a[j][i] =
                            fit_alpha_oneshot_entries(est_call.t, U, est_call.beta,
                                Clusters(<<CallClusters[i]>>))[j][1]
           /\ est_call.clusters = None =>
                \A j \in Genes : \A i \in 1..Len(U[1]) :
                    a[j][i] = fit_alpha_synthesis(est_call.t, [k \in {i} |-> U[j][k]],
                                                  est_call.beta[j])

\* An empty cluster before a cluster of two cells.
C27_Witness ==
    /\ est_call.op = "fit_alpha_oneshot"
    /\ est_call.clusters # None
    /\ Len(est_call.clusters.v) = 2
    /\ est_call.clusters.v[1] = {}
    /\ est_call.clusters.v[2] = {1, 2}
    /\ \A j \in Genes : est_call.alpha[j][1] = NaN /\ est_call.alpha[j][2] # NaN

\* A one-shot fit at a single labelling time with ul, uu, sl and su.
FourLayerOneShot ==
    /\ est_call.op = "fit"
    /\ est.extyp \in {"one_shot", "one-shot"}
    /\ len_t_uniq(est.t) = 1
    /\ {"ul", "uu", "sl", "su"} \subseteq est.data

\* C28: on a one-shot instance with a single time value, all of ul, uu, sl, su
\* and no preset parameters, the first fit derives beta and gamma and stores a
\* per-gene alpha vector; a further fit finds beta and gamma set, leaves them
\* as they are and replaces alpha by the genes x clusters matrix of
\* fit_alpha_oneshot, so that fitting twice differs from fitting once.
C28_SecondFitDiffers ==
    FourLayerOneShot =>
        IF est_pre.alpha = None /\ est_pre.beta = None /\ est_pre.gamma = None
        THEN /\ est.parameters.beta = vector(NGenes, "solve_gamma")
             /\ est.parameters.gamma = vector(NGenes, "solve_gamma")
             /\ est.parameters.alpha = vector(NGenes, "fit_alpha_synthesis")
        ELSE /\ est.parameters.beta = est_pre.beta
             /\ est.parameters.gamma = est_pre.gamma
             /\ est.parameters.alpha =
                  matrix(NGenes,
                         IF est_call.clusters = None THEN n_cells(est)
                         ELSE est_call.clusters.n,
                         "fit_alpha_oneshot")
             /\ est.parameters.alpha # vector(NGenes, "fit_alpha_synthesis")

\* The second fit: the first one's alpha vector was replaced by a matrix.
C28_Witness ==
    /\ FourLayerOneShot
    /\ est_pre.alpha = vector(NGenes, "fit_alpha_synthesis")
    /\ est_pre.beta = vector(NGenes, "solve_gamma")
    /\ est.parameters.beta = est_pre.beta
    /\ est.parameters.alpha.kind = "mat"
    /\ est_call.writes.alpha = 1 /\ est_call.writes.beta = 0

\* The instance the last fit was called on, but with the diagnostics of a
\* newly constructed one.
FreshAux == [est EXCEPT !.parameters = est_pre, !.aux_param = NoAux]

\* C29: the diagnostics never feed back into fitting: an instance that
\* differs from another in the contents of aux_param only gets from fit the
\* same outcome, the same assignments and the same five rate parameters.
C29_AuxNeverRead ==
    est_call.op = "fit" =>
        LET r == fit(FreshAux, est_call.clusters, est_call.one_shot_method)
        IN /\ est.parameters = r.parameters
           /\ est_call.raised = r.raised
           /\ est_call.writes =
                store_writes(FreshAux, est_call.clusters, est_call.one_shot_method)

\* A fit on an instance whose diagnostics were all given beforehand, and
\* which replaced two of them.
C29_Witness ==
    /\ est_call.op = "fit" /\ est_call.raised = "none"
    /\ est_pre = NoParameters
    /\ est.parameters.gamma # None
    /\ est.aux_param["gamma_r2"] = [kind |-> "diagnostic"]
    /\ est.aux_param["uu0"] = [kind |-> "given"]

====
